---- MODULE Spec2Model ----
(***************************************************************************)
(* Product catalog service (src/app.py): POST /products/generate,          *)
(* GET /products and GET /products/search over one SQLite store with an    *)
(* optional FTS5 index (products_fts).                                     *)
(*                                                                         *)
(* Text is a sequence of one-character strings, so that strip(), split(),  *)
(* lower(), re.sub, int(), LIKE and the FTS5 tokenizer are computed on     *)
(* characters.  price and stock of a row are not modelled: no handler      *)
(* reads them.  random.seed/random.choice are nondeterministic choice.     *)
(***************************************************************************)
EXTENDS Integers, Sequences, FiniteSets, TLC

\* ---------------------------------------------------------------- bounds
\* Largest number of rows the store is let to grow to.
MaxRows == 3
\* Number of distinct values uuid4().hex[:10] is drawn from.
NumSkus == 3
\* Decimal texts longer than this denote an integer above 2^63 - 1.
MaxDigits == 9

\* ------------------------------------------------------------- constants
MAX_PAGE_SIZE == 200
MAX_GENERATE_COUNT == 2000
DEFAULT_PAGE == 1
DEFAULT_LIMIT == 50
DEFAULT_COUNT == 100

\* ------------------------------------------------------------------ text
UpperChars == <<"A", "B", "C", "D", "E", "F", "G", "H", "I", "J", "K", "L", "M", "N", "O", "P", "Q", "R", "S", "T", "U", "V", "W", "X", "Y", "Z">>
LowerChars == <<"a", "b", "c", "d", "e", "f", "g", "h", "i", "j", "k", "l", "m", "n", "o", "p", "q", "r", "s", "t", "u", "v", "w", "x", "y", "z">>
DigitChars == <<"0", "1", "2", "3", "4", "5", "6", "7", "8", "9">>

Range(f) == {f[i] : i \in DOMAIN f}

IsSpace(c) == c = " "
IsDigit(c) == c \in Range(DigitChars)
IsLowerAlnum(c) == c \in Range(LowerChars) \cup Range(DigitChars)

\* str.lower() / SQL lower() / the FTS5 tokenizer's case folding, per character
LowerChar(c) ==
    IF c \in Range(UpperChars)
    THEN LowerChars[CHOOSE i \in DOMAIN UpperChars : UpperChars[i] = c]
    ELSE c

\* str.upper(), per character
UpperChar(c) ==
    IF c \in Range(LowerChars)
    THEN UpperChars[CHOOSE i \in DOMAIN LowerChars : LowerChars[i] = c]
    ELSE c

ToLower(s) == [i \in DOMAIN s |-> LowerChar(s[i])]
ToUpper(s) == [i \in DOMAIN s |-> UpperChar(s[i])]

RECURSIVE LStrip(_)
LStrip(s) == IF s # <<>> /\ IsSpace(Head(s)) THEN LStrip(Tail(s)) ELSE s

RECURSIVE RStrip(_)
RStrip(s) ==
    IF s # <<>> /\ IsSpace(s[Len(s)]) THEN RStrip(SubSeq(s, 1, Len(s) - 1)) ELSE s

\* str.strip()
Strip(s) == RStrip(LStrip(s))

\* str.split(): the maximal runs of non-whitespace characters
RECURSIVE SplitFrom(_, _, _)
SplitFrom(s, cur, acc) ==
    IF s = <<>>
    THEN IF cur = <<>> THEN acc ELSE Append(acc, cur)
    ELSE IF IsSpace(Head(s))
         THEN SplitFrom(Tail(s), <<>>, IF cur = <<>> THEN acc ELSE Append(acc, cur))
         ELSE SplitFrom(Tail(s), Append(cur, Head(s)), acc)

Split(s) == SplitFrom(s, <<>>, <<>>)

\* re.sub(r'[^a-z0-9]', '', s)
RECURSIVE KeepLowerAlnum(_)
KeepLowerAlnum(s) ==
    IF s = <<>> THEN <<>>
    ELSE IF IsLowerAlnum(Head(s))
         THEN <<Head(s)>> \o KeepLowerAlnum(Tail(s))
         ELSE KeepLowerAlnum(Tail(s))

RECURSIVE NonEmpty(_)
NonEmpty(ts) ==
    IF ts = <<>> THEN <<>>
    ELSE IF Head(ts) = <<>> THEN NonEmpty(Tail(ts))
         ELSE <<Head(ts)>> \o NonEmpty(Tail(ts))

IsPrefix(p, s) == Len(p) <= Len(s) /\ SubSeq(s, 1, Len(p)) = p

\* q occurs in s as a contiguous substring
Contains(q, s) ==
    \E i \in 0..(Len(s) - Len(q)) : SubSeq(s, i + 1, i + Len(q)) = q

\* SQL LIKE: % matches any run of characters, _ any one character
RECURSIVE LikeMatch(_, _)
LikeMatch(p, s) ==
    IF p = <<>> THEN s = <<>>
    ELSE IF Head(p) = "%"
         THEN LikeMatch(Tail(p), s) \/ (s # <<>> /\ LikeMatch(p, Tail(s)))
         ELSE /\ s # <<>>
              /\ (Head(p) = "_" \/ Head(p) = Head(s))
              /\ LikeMatch(Tail(p), Tail(s))

\* column.ilike(pattern): lower(column) LIKE lower(pattern)
Ilike(col, pattern) == LikeMatch(ToLower(pattern), ToLower(col))

\* ------------------------------------------------- request values, int()
\* A raw request value: a query-string argument (absent or text) or the JSON
\* member "count" (absent, null, integer, number with a fraction in tenths,
\* text).
Val(k, n, s) == [kind |-> k, n |-> n, s |-> s]
Missing == Val("missing", 0, <<>>)
Null == Val("null", 0, <<>>)
JInt(n) == Val("int", n, <<>>)
JFloat(tenths) == Val("float", tenths, <<>>)
Str(s) == Val("str", 0, s)

\* dict.get(key, default)
GetOr(v, default) == IF v.kind = "missing" THEN JInt(default) ELSE v

\* A Python int: n, or huge (above 2^63 - 1, the largest SQLite INTEGER).
PyOk(n) == [exc |-> "none", huge |-> FALSE, n |-> n]
PyHuge == [exc |-> "none", huge |-> TRUE, n |-> 0]
PyRaise(e) == [exc |-> e, huge |-> FALSE, n |-> 0]

DigitValue(c) == (CHOOSE i \in DOMAIN DigitChars : DigitChars[i] = c) - 1

RECURSIVE DropUnderscores(_)
DropUnderscores(s) ==
    IF s = <<>> THEN <<>>
    ELSE IF Head(s) = "_" THEN DropUnderscores(Tail(s))
         ELSE <<Head(s)>> \o DropUnderscores(Tail(s))

RECURSIVE DropLeadingZeros(_)
DropLeadingZeros(s) ==
    IF Len(s) > 1 /\ Head(s) = "0" THEN DropLeadingZeros(Tail(s)) ELSE s

RECURSIVE Horner(_, _)
Horner(ds, acc) ==
    IF ds = <<>> THEN acc ELSE Horner(Tail(ds), 10 * acc + DigitValue(Head(ds)))

\* the digit part of an int() literal: digits, single underscores between them
IsDigitPart(d) ==
    /\ d # <<>>
    /\ IsDigit(d[1]) /\ IsDigit(d[Len(d)])
    /\ \A i \in DOMAIN d : IsDigit(d[i]) \/ d[i] = "_"
    /\ \A i \in 1..(Len(d) - 1) : ~(d[i] = "_" /\ d[i + 1] = "_")

\* int(text): surrounding whitespace, an optional sign, decimal digits
IntOfText(s) ==
    LET t == Strip(s)
        signed == t # <<>> /\ Head(t) \in {"+", "-"}
        d == IF signed THEN Tail(t) ELSE t
        sign == IF signed /\ Head(t) = "-" THEN -1 ELSE 1
        ds == DropLeadingZeros(DropUnderscores(d))
    IN  IF ~IsDigitPart(d) THEN PyRaise("ValueError")
        ELSE IF Len(ds) > MaxDigits THEN PyHuge
        ELSE PyOk(sign * Horner(ds, 0))

\* int(value), src/app.py:122
PyInt(v) ==
    CASE v.kind = "int" -> PyOk(v.n)
      [] v.kind = "float" ->
            PyOk(IF v.n >= 0 THEN v.n \div 10 ELSE -((-v.n) \div 10))
      [] v.kind = "str" -> IntOfText(v.s)
      [] OTHER -> PyRaise("TypeError")

\* _int_or_error(value, field, minimum, maximum); maximum is <<>> for None.
\* "ok" with the integer, or "ValueError" with the message.
IntResult(k, i, msg) == [kind |-> k, int |-> i, msg |-> msg]

_int_or_error(value, field, minimum, maximum) ==
    LET i == PyInt(value) IN
    IF i.exc \in {"TypeError", "ValueError"}
    THEN IntResult("ValueError", PyOk(0), <<field, "must be an integer">>)
    ELSE IF ~i.huge /\ i.n < minimum
    THEN IntResult("ValueError", PyOk(0), <<field, "must be >= minimum">>)
    ELSE IF maximum # <<>> /\ (i.huge \/ i.n > maximum[1])
    THEN IntResult("ValueError", PyOk(0), <<field, "must be <= maximum">>)
    ELSE IntResult("ok", i, <<>>)

\* ------------------------------------------------------ generated products
\* The words random.choice draws from, cut down to one per list.
Acme == <<"A", "c", "m", "e">>
brands == {Acme}
categories == {<<"H", "o", "m", "e">>}
adjectives == {<<"E", "c", "o">>}
nouns == {<<"L", "a", "m", "p">>}
benefits == {<<"I", "d", "e", "a", "l", " ", "f", "o", "r", " ", "s", "m", "a", "l", "l", " ", "s", "p", "a", "c", "e", "s">>}
features == {<<"q", "u", "i", "c", "k", " ", "s", "e", "t", "u", "p">>}

\* random_product_name()
random_product_name == {a \o <<" ">> \o n : a \in adjectives, n \in nouns}

\* random_sentence()
random_sentence ==
    {b \o <<" ", "w", "i", "t", "h", " ">> \o f \o <<".">> : b \in benefits, f \in features}

\* uuid4().hex[:10]: ten hexadecimal digits, lower case
UuidHex == {<<DigitChars[i + 1]>> \o <<"a", "0", "0", "0", "0", "0", "0", "0", "0">> : i \in 1..NumSkus}

\* f"SKU-{uuid4().hex[:10].upper()}"
Skus == {<<"S", "K", "U", "-">> \o ToUpper(h) : h \in UuidHex}

\* One Product(...) of the list comprehension, before the store gives it an id.
\* The brand inside the name is drawn apart from the brand column.
Products ==
    {[name |-> nb \o <<" ">> \o n, description |-> d, category |-> c, brand |-> b, sku |-> k] :
        nb \in brands, n \in random_product_name, d \in random_sentence,
        c \in categories, b \in brands, k \in Skus}

\* the lists of count products one call can build
ProductLists(count) == [1..count -> Products]

\* the text columns of a row, as the ilike filter and the index read them
TextColumns(row) == <<row.name, row.description, row.category, row.brand, row.sku>>

\* ------------------------------------------------------------ record store
\* INSERT gives each row the next id (INTEGER PRIMARY KEY)
WithIds(store, products) ==
    [i \in DOMAIN products |->
        [id |-> Len(store) + i, name |-> products[i].name,
         description |-> products[i].description, category |-> products[i].category,
         brand |-> products[i].brand, sku |-> products[i].sku]]

\* the unique constraint on sku, checked by the INSERTs of one batch
SkuConflict(store, products) ==
    \/ \E i \in DOMAIN products : \E j \in DOMAIN store : products[i].sku = store[j].sku
    \/ \E i, j \in DOMAIN products : i # j /\ products[i].sku = products[j].sku

\* CommitBatch with every INSERT committed on its own and the batch cut
\* short after the first
CommitBatchPartial(store, products) == store \o WithIds(store, SubSeq(products, 1, 1))

\* db.session.commit(): the whole batch becomes visible at once
CommitBatch(store, products) == store \o WithIds(store, products)

\* ------------------------------------------------------------ search index
\* The FTS5 tokenizer: the maximal runs of letters and digits, case folded.
RECURSIVE TokensFrom(_, _, _)
TokensFrom(s, cur, acc) ==
    IF s = <<>>
    THEN IF cur = <<>> THEN acc ELSE acc \cup {cur}
    ELSE IF IsLowerAlnum(LowerChar(Head(s)))
         THEN TokensFrom(Tail(s), Append(cur, LowerChar(Head(s))), acc)
         ELSE TokensFrom(Tail(s), <<>>, IF cur = <<>> THEN acc ELSE acc \cup {cur})

FtsTokens(text) == TokensFrom(text, <<>>, {})

\* the entry of one row: the tokens of its five indexed columns
FtsEntry(row) ==
    [rowid |-> row.id,
     tokens |-> UNION {FtsTokens(TextColumns(row)[i]) : i \in 1..5}]

\* INSERT INTO products_fts(products_fts) VALUES('rebuild')
Rebuild(store) == {FtsEntry(store[i]) : i \in DOMAIN store}

\* build_match(text_term): the tokens of ' OR '.join(f'{token}*'), <<>> for None
build_match(term) ==
    LET parts == Split(term)
    IN  NonEmpty([i \in DOMAIN parts |-> KeepLowerAlnum(ToLower(parts[i]))])

\* SELECT rowid FROM products_fts WHERE products_fts MATCH :match
FtsQuery(fts, match) ==
    {e.rowid : e \in {x \in fts :
        \E i \in DOMAIN match : \E t \in x.tokens : IsPrefix(match[i], t)}}

\* ------------------------------------------------------------ query engine
\* A response: the status and the members of the JSON body.  req is the
\* request it answers.
Req(q, page, limit, count) == [q |-> q, page |-> page, limit |-> limit, count |-> count]
NoReq == Req(Missing, Missing, Missing, Missing)
Body(status, items, page, total, created, error) ==
    [status |-> status, items |-> items, page |-> page, total |-> total,
     created |-> created, error |-> error]

\* _json_error(message), and the (jsonify({'error': ...}), 400) of _paginate_query
JsonError(msg) == Body(400, <<>>, 0, 0, 0, msg)
\* an exception no handler catches: the framework answers 500
ServerError(exc) == Body(500, <<>>, 0, 0, 0, <<exc>>)
\* jsonify({'items': ..., 'page': ..., 'total': ...})
PageBody(items, page, total) == Body(200, items, page, total, 0, <<>>)

Min(a, b) == IF a < b THEN a ELSE b

\* Paginate with a page that runs one row too far
PaginateOverlap(rows, page, limit) ==
    IF page.huge
    THEN [exc |-> "OverflowError", items |-> <<>>, total |-> 0]
    ELSE LET offset == (page.n - 1) * limit.n
         IN  [exc |-> "none",
              items |-> SubSeq(rows, offset + 1, Min(offset + limit.n + 1, Len(rows))),
              total |-> Len(rows)]

\* query.paginate(page=page, per_page=limit, error_out=False): LIMIT limit
\* OFFSET (page - 1) * limit, and the count of the whole query.  An offset
\* above 2^63 - 1 cannot be bound as an SQLite INTEGER.
Paginate(rows, page, limit) ==
    IF page.huge
    THEN [exc |-> "OverflowError", items |-> <<>>, total |-> 0]
    ELSE LET offset == (page.n - 1) * limit.n
         IN  [exc |-> "none",
              items |-> SubSeq(rows, offset + 1, Min(offset + limit.n, Len(rows))),
              total |-> Len(rows)]

\* _paginate_query(query), followed by the jsonify of the handler
PaginateQuery(rows, page_raw, limit_raw) ==
    LET page == _int_or_error(GetOr(page_raw, DEFAULT_PAGE), "page", 1, <<>>)
        limit == _int_or_error(GetOr(limit_raw, DEFAULT_LIMIT), "limit", 1, <<MAX_PAGE_SIZE>>)
    IN  IF page.kind = "ValueError" THEN JsonError(page.msg)
        ELSE IF limit.kind = "ValueError" THEN JsonError(limit.msg)
        ELSE LET pg == Paginate(rows, page.int, limit.int)
             IN  IF pg.exc # "none" THEN ServerError(pg.exc)
                 ELSE PageBody(pg.items, page.int.n, pg.total)

\* the or_(... ilike(like) ...) filter with like = f"%{term}%"
LikeFilter(row, term) ==
    \E i \in 1..5 : Ilike(TextColumns(row)[i], <<"%">> \o term \o <<"%">>)

RECURSIVE Where(_, _, _, _)
Where(rows, term, filtered, ids) ==
    IF rows = <<>> THEN <<>>
    ELSE IF LikeFilter(Head(rows), term) /\ (~filtered \/ Head(rows).id \in ids)
         THEN <<Head(rows)>> \o Where(Tail(rows), term, filtered, ids)
         ELSE Where(Tail(rows), term, filtered, ids)

\* base_query (with .filter(Product.id.in_(ids)) when the index was asked),
\* ordered by id
SearchQuery(store, term, filtered, ids) == Where(store, term, filtered, ids)

\* list_products()
list_products(store, page_raw, limit_raw) == PaginateQuery(store, page_raw, limit_raw)

\* (request.args.get('q') or '').strip()
TermOf(q) == IF q.kind = "str" THEN Strip(q.s) ELSE <<>>

\* f'{n}' of a non-negative integer
RECURSIVE Decimal(_)
Decimal(n) ==
    IF n < 10 THEN <<DigitChars[n + 1]>>
    ELSE Decimal(n \div 10) \o <<DigitChars[(n % 10) + 1]>>

\* ------------------------------------------------------------------ state
Clients == {"c1", "c2"}

VARIABLES
    store,      \* the products table: the committed rows, in id order
    fts,        \* the products_fts index: one entry per row it was built from
    HAS_FTS,    \* app.config['HAS_FTS']
    pc,         \* where each client's request stands in its handler
    request,    \* the request each handler is working on
    products,   \* generate_products: the list built by the request in flight
    ids,        \* search_products: the ids read from the index
    fetch,      \* _fetch_all_products: limit, page and the items collected
    resp        \* the response being handed to a client, if any

vars == <<store, fts, HAS_FTS, pc, request, products, ids, fetch, resp>>

\* writes: for generate, whether the call committed its rows; for fetch_all,
\* whether a commit fell between its requests
Respond(op, c, req, body, writes) ==
    [op |-> op, client |-> c, req |-> req, body |-> body, writes |-> writes]
NoResp == Respond("none", "none", NoReq, Body(0, <<>>, 0, 0, 0, <<>>), FALSE)

NoFetch == [limit |-> 0, page |-> 0, items |-> <<>>, writes |-> FALSE]

\* create_app(): db.create_all() on an empty database, then ensure_fts(),
\* which either builds the index or finds FTS unavailable
Init ==
    /\ store = <<>>
    /\ fts = {}
    /\ HAS_FTS \in BOOLEAN
    /\ pc = [c \in Clients |-> "idle"]
    /\ request = [c \in Clients |-> NoReq]
    /\ products = [c \in Clients |-> <<>>]
    /\ ids = [c \in Clients |-> {}]
    /\ fetch = [c \in Clients |-> NoFetch]
    /\ resp = NoResp

\* a client may send a request, and a handler may take a step, once the
\* response before it has been received
Ready(c, at) == pc[c] = at /\ resp = NoResp

\* the handler of c returns body (or raises, and the framework answers)
Return(op, c, req, body, writes) ==
    /\ resp' = Respond(op, c, req, body, writes)
    /\ pc' = [pc EXCEPT ![c] = "idle"]
    /\ request' = [request EXCEPT ![c] = NoReq]
    /\ products' = [products EXCEPT ![c] = <<>>]
    /\ ids' = [ids EXCEPT ![c] = {}]

\* the write lock of the database: held from the INSERTs to the commit
WriteLocked == \E c \in Clients : pc[c] = "commit"

\* --------------------------------------------------- POST /products/generate
CountOf(count_raw) ==
    _int_or_error(GetOr(count_raw, DEFAULT_COUNT), "count", 1, <<MAX_GENERATE_COUNT>>)

GenerateReq(count_raw) == Req(Missing, Missing, Missing, count_raw)

\* count fails _int_or_error: _json_error(str(exc))
GenerateInvalid(c, count_raw) ==
    /\ Ready(c, "idle")
    /\ CountOf(count_raw).kind = "ValueError"
    /\ Return("generate", c, GenerateReq(count_raw), JsonError(CountOf(count_raw).msg), FALSE)
    /\ UNCHANGED <<store, fts, HAS_FTS, fetch>>

\* the count products are built and bulk_save_objects INSERTs them
GenerateInsert(c, count_raw) ==
    /\ Ready(c, "idle")
    /\ CountOf(count_raw).kind = "ok"
    /\ Len(store) + CountOf(count_raw).int.n <= MaxRows
    /\ ~WriteLocked
    /\ \E ps \in ProductLists(CountOf(count_raw).int.n) :
        /\ ~SkuConflict(store, ps)
        /\ products' = [products EXCEPT ![c] = ps]
    /\ request' = [request EXCEPT ![c] = GenerateReq(count_raw)]
    /\ pc' = [pc EXCEPT ![c] = "commit"]
    /\ UNCHANGED <<store, fts, HAS_FTS, ids, fetch, resp>>

\* an INSERT violates the unique constraint on sku: IntegrityError, the
\* transaction is rolled back and the framework answers 500
GenerateDuplicate(c, count_raw) ==
    /\ Ready(c, "idle")
    /\ CountOf(count_raw).kind = "ok"
    /\ CountOf(count_raw).int.n <= MaxRows
    /\ ~WriteLocked
    /\ \E ps \in ProductLists(CountOf(count_raw).int.n) : SkuConflict(store, ps)
    /\ Return("generate", c, GenerateReq(count_raw), ServerError("IntegrityError"), FALSE)
    /\ UNCHANGED <<store, fts, HAS_FTS, fetch>>

\* db.session.commit()
GenerateCommit(c) ==
    /\ Ready(c, "commit")
    /\ store' = CommitBatch(store, products[c])
    /\ pc' = [pc EXCEPT ![c] = "refresh"]
    /\ fetch' = [d \in Clients |->
                    IF pc[d] = "fetch" THEN [fetch[d] EXCEPT !.writes = TRUE] ELSE fetch[d]]
    /\ UNCHANGED <<fts, HAS_FTS, request, products, ids, resp>>

\* jsonify({'created': len(products)})
Created(ps) == Body(200, <<>>, 0, 0, Len(ps), <<>>)

\* refresh_fts() returns at once or rebuilds the index; the handler returns
GenerateRefresh(c) ==
    /\ Ready(c, "refresh")
    /\ HAS_FTS => ~WriteLocked
    /\ fts' = IF HAS_FTS THEN Rebuild(store) ELSE fts
    /\ Return("generate", c, request[c], Created(products[c]), TRUE)
    /\ UNCHANGED <<store, HAS_FTS, fetch>>

\* the rebuild statement of refresh_fts() raises (the database is locked, the
\* index is damaged, the disk is full): nothing catches it
GenerateRefreshFails(c) ==
    /\ Ready(c, "refresh")
    /\ HAS_FTS
    /\ Return("generate", c, request[c], ServerError("OperationalError"), TRUE)
    /\ UNCHANGED <<store, fts, HAS_FTS, fetch>>

\* ------------------------------------------------------------ GET /products
ListReq(page_raw, limit_raw) == Req(Missing, page_raw, limit_raw, Missing)

ListProducts(c, page_raw, limit_raw) ==
    /\ Ready(c, "idle")
    /\ Return("list", c, ListReq(page_raw, limit_raw),
              list_products(store, page_raw, limit_raw), FALSE)
    /\ UNCHANGED <<store, fts, HAS_FTS, fetch>>

\* ----------------------------------------------------- GET /products/search
\* the index is asked: HAS_FTS and build_match(term) is not None
UsesIndex(q) == HAS_FTS /\ build_match(TermOf(q)) # <<>>

SearchReq(q, p) == Req(q, p[1], p[2], Missing)

\* term is empty after strip(): 400 before anything else is read
SearchBlank(c, q, pagings) ==
    /\ Ready(c, "idle")
    /\ TermOf(q) = <<>>
    /\ \E p \in pagings :
        Return("search", c, SearchReq(q, p), JsonError(<<"Query parameter q is required">>), FALSE)
    /\ UNCHANGED <<store, fts, HAS_FTS, fetch>>

\* the index returns no id: the empty page is returned at once
SearchIndexEmpty(c, q, pagings) ==
    /\ Ready(c, "idle")
    /\ TermOf(q) # <<>>
    /\ UsesIndex(q)
    /\ FtsQuery(fts, build_match(TermOf(q))) = {}
    /\ \E p \in pagings : Return("search", c, SearchReq(q, p), PageBody(<<>>, 1, 0), FALSE)
    /\ UNCHANGED <<store, fts, HAS_FTS, fetch>>

\* the index returns ids: they narrow base_query
SearchIndexIds(c, q, pagings) ==
    /\ Ready(c, "idle")
    /\ TermOf(q) # <<>>
    /\ UsesIndex(q)
    /\ FtsQuery(fts, build_match(TermOf(q))) # {}
    /\ ids' = [ids EXCEPT ![c] = FtsQuery(fts, build_match(TermOf(q)))]
    /\ \E p \in pagings : request' = [request EXCEPT ![c] = SearchReq(q, p)]
    /\ pc' = [pc EXCEPT ![c] = "page"]
    /\ UNCHANGED <<store, fts, HAS_FTS, products, fetch, resp>>

\* _paginate_query over the narrowed query, read from the store as it is now
SearchPage(c) ==
    /\ Ready(c, "page")
    /\ Return("search", c, request[c],
              PaginateQuery(SearchQuery(store, TermOf(request[c].q), TRUE, ids[c]),
                            request[c].page, request[c].limit), FALSE)
    /\ UNCHANGED <<store, fts, HAS_FTS, fetch>>

\* no index, or no token: the ilike filter alone
SearchDirect(c, q, pagings) ==
    /\ Ready(c, "idle")
    /\ TermOf(q) # <<>>
    /\ ~UsesIndex(q)
    /\ LET rows == SearchQuery(store, TermOf(q), FALSE, {})
       IN  \E p \in pagings :
            Return("search", c, SearchReq(q, p), PaginateQuery(rows, p[1], p[2]), FALSE)
    /\ UNCHANGED <<store, fts, HAS_FTS, fetch>>

\* ------------------------------------------ _fetch_all_products (the tests)
FetchStart(c, limit) ==
    /\ Ready(c, "idle")
    /\ fetch' = [fetch EXCEPT ![c] = [limit |-> limit, page |-> 1, items |-> <<>>, writes |-> FALSE]]
    /\ pc' = [pc EXCEPT ![c] = "fetch"]
    /\ UNCHANGED <<store, fts, HAS_FTS, request, products, ids, resp>>

\* one turn of the loop: GET /products?page={page}&limit={limit}, extend,
\* stop once len(items) >= total
FetchPage(c) ==
    LET data == list_products(store, Str(Decimal(fetch[c].page)), Str(Decimal(fetch[c].limit)))
        items == fetch[c].items \o data.items
    IN  /\ Ready(c, "fetch")
        /\ IF Len(items) >= data.total
           THEN /\ resp' = Respond("fetch_all", c,
                                   ListReq(Str(Decimal(fetch[c].page)), Str(Decimal(fetch[c].limit))),
                                   PageBody(items, fetch[c].page, data.total), fetch[c].writes)
                /\ pc' = [pc EXCEPT ![c] = "idle"]
                /\ fetch' = [fetch EXCEPT ![c] = NoFetch]
                /\ UNCHANGED <<request, products, ids>>
           ELSE /\ fetch' = [fetch EXCEPT ![c].items = items, ![c].page = @ + 1]
                /\ UNCHANGED <<pc, request, products, ids, resp>>
        /\ UNCHANGED <<store, fts, HAS_FTS>>

\* the client reads the response
Receive ==
    /\ resp # NoResp
    /\ resp' = NoResp
    /\ UNCHANGED <<store, fts, HAS_FTS, pc, request, products, ids, fetch>>

\* ----------------------------------------------------------------- inputs
\* "count" of the JSON body: absent, null, integers in and out of
\* [1, MAX_GENERATE_COUNT], 1.5, "abc", "2"
CountArgs ==
    {Missing, Null, JFloat(15), Str(<<"a", "b", "c">>), Str(<<"2">>)}
    \cup {JInt(n) : n \in {-5, 0, MAX_GENERATE_COUNT + 1, 2500}}
    \cup {JInt(n) : n \in 1..MaxRows}

\* q: absent, blank, and terms that are a word prefix (" Acm"), the inside of
\* a word ("cme"), two words apart in the text ("acme lamp"), a LIKE
\* wildcard ("%"), in no row ("zzz"), without letter or digit ("-"), and the
\* start of one row's sku ("1a")
QArgs ==
    {Missing, Str(<<" ">>), Str(<<" ", "A", "c", "m">>), Str(<<"c", "m", "e">>),
     Str(<<"a", "c", "m", "e", " ", "l", "a", "m", "p">>), Str(<<"%">>),
     Str(<<"z", "z", "z">>), Str(<<"-">>), Str(<<"1", "a">>)}

\* page and limit: absent, valid, zero, above MAX_PAGE_SIZE, not a number,
\* and a page of twenty digits
TwentyDigits == [i \in 1..20 |-> IF i = 1 THEN "1" ELSE "0"]
PageArgs == {Missing, Str(<<"0">>), Str(<<"2">>), Str(<<"3">>), Str(<<"x">>), Str(TwentyDigits)}
LimitArgs == {Missing, Str(<<"0">>), Str(<<"1">>), Str(<<"2">>), Str(<<"1", ".", "5">>), Str(Decimal(MAX_PAGE_SIZE + 1))}
Pagings == (PageArgs \X {Missing, Str(<<"1">>), Str(<<"2">>)}) \cup ({Missing} \X LimitArgs)

FetchLimits == {1, 2, 50, MAX_PAGE_SIZE}

\* ------------------------------------------------------------ specification
Step(c, counts, qs, pagings, limits) ==
    \/ \E n \in counts : GenerateInvalid(c, n)
    \/ \E n \in counts : GenerateInsert(c, n)
    \/ \E n \in counts : GenerateDuplicate(c, n)
    \/ GenerateCommit(c)
    \/ GenerateRefresh(c)
    \/ GenerateRefreshFails(c)
    \/ \E p \in pagings : ListProducts(c, p[1], p[2])
    \/ \E q \in qs : SearchBlank(c, q, pagings)
    \/ \E q \in qs : SearchIndexEmpty(c, q, pagings)
    \/ \E q \in qs : SearchIndexIds(c, q, pagings)
    \/ SearchPage(c)
    \/ \E q \in qs : SearchDirect(c, q, pagings)
    \/ \E l \in limits : FetchStart(c, l)
    \/ FetchPage(c)

\* one connection: the requests of one client, one at a time
Next == Step("c1", CountArgs, QArgs, Pagings, FetchLimits) \/ Receive

Spec == Init /\ [][Next]_vars

\* several connections: the requests of the clients interleave at every
\* statement that reads or writes the database
ConcCounts == {JInt(0), JInt(1), JInt(2)}
ConcQArgs == {Str(<<" ">>), Str(<<"1", "a">>), Str(<<"a", "c", "m", "e", " ", "l", "a", "m", "p">>)}
ConcPagings == {<<Missing, Str(<<"2">>)>>}
ConcFetchLimits == {1}

ConcNext ==
    \/ \E c \in Clients : Step(c, ConcCounts, ConcQArgs, ConcPagings, ConcFetchLimits)
    \/ Receive

ConcSpec == Init /\ [][ConcNext]_vars

\* ------------------------------------------------------------------ claims
\* What the claims speak of, stated apart from the handlers.
StoreIds == {store[i].id : i \in DOMAIN store}
SkusDistinct == \A i, j \in DOMAIN store : i # j => store[i].sku # store[j].sku

\* term occurs, letter case aside, inside one of the five text columns
HasSubstring(row, term) ==
    \E i \in 1..5 : Contains(ToLower(term), ToLower(TextColumns(row)[i]))

\* text that writes an integer: an optional sign and decimal digits
IsIntegerText(s) ==
    LET d == IF s # <<>> /\ Head(s) \in {"+", "-"} THEN Tail(s) ELSE s
    IN  d # <<>> /\ \A i \in DOMAIN d : IsDigit(d[i])

\* an argument that is not an integer, or is one outside [lo, hi]; hi = 0
\* stands for no upper limit
ArgInvalid(v, lo, hi) ==
    /\ v.kind = "str"
    /\ \/ ~IsIntegerText(v.s)
       \/ ~IntOfText(v.s).huge /\ IntOfText(v.s).n < lo
       \/ hi > 0 /\ (IntOfText(v.s).huge \/ IntOfText(v.s).n > hi)

PagingInvalid(req) ==
    ArgInvalid(req.page, 1, 0) \/ ArgInvalid(req.limit, 1, MAX_PAGE_SIZE)

\* q missing, empty or whitespace-only
QBlank(q) == q.kind # "str" \/ \A i \in DOMAIN q.s : q.s[i] = " "

\* a count that is not an integer, or is one outside [1, MAX_GENERATE_COUNT]
CountInvalid(v) ==
    \/ v.kind = "null"
    \/ v.kind = "float" /\ v.n % 10 # 0
    \/ v.kind = "int" /\ v.n \notin 1..MAX_GENERATE_COUNT
    \/ v.kind = "str" /\ ArgInvalid(v, 1, MAX_GENERATE_COUNT)

PageNo(req) == PyInt(GetOr(req.page, DEFAULT_PAGE))
LimitNo(req) == PyInt(GetOr(req.limit, DEFAULT_LIMIT)).n

\* the rows a request pages through: all of them for a listing, those the
\* search selects, in id order
ResultSet(op, req) ==
    IF op = "list" THEN store
    ELSE SearchQuery(store, TermOf(req.q), UsesIndex(req.q),
                     FtsQuery(fts, build_match(TermOf(req.q))))

IndexFresh == HAS_FTS => fts = Rebuild(store)

\* C1: every generate call with a count in [1, 2000] is answered 200 with
\* created = count, having committed its rows, and leaves all SKUs of the
\* store pairwise distinct, whatever SKUs were drawn.
C1_GenerateNeverFails ==
    (resp.op = "generate" /\ resp.req.count.kind = "int"
        /\ resp.req.count.n \in 1..MAX_GENERATE_COUNT)
    => /\ resp.body.status = 200
       /\ resp.body.created = resp.req.count.n
       /\ resp.writes
       /\ SkusDistinct

\* C2: with no write in between, the pages 1, 2, 3, ... of GET /products at
\* one limit, collected until they reach total, are the stored rows in
\* strictly ascending id order, none twice and none missing; and every page
\* reports the full row count as total.
C2_PagesPartitionStore ==
    /\ (resp.op = "fetch_all" /\ ~resp.writes)
        => /\ resp.body.items = store
           /\ resp.body.total = Len(store)
           /\ \A i \in 1..(Len(resp.body.items) - 1) :
                resp.body.items[i].id < resp.body.items[i + 1].id
    /\ (resp.op = "list" /\ resp.body.status = 200) => resp.body.total = Len(store)

\* a fetch over three rows that took two pages of two
C2_Witness ==
    /\ resp.op = "fetch_all"
    /\ Len(store) = 3
    /\ resp.req.limit = Str(<<"2">>)
    /\ resp.body.page = 2
    /\ Len(resp.body.items) = 3

\* C3: a search (default page and limit) for a non-blank term that occurs in
\* some stored row, with the index either unavailable or rebuilt from the
\* store, reports total >= 1.
C3_FoundWhenPresent ==
    (resp.op = "search" /\ ~QBlank(resp.req.q)
        /\ resp.req.page = Missing /\ resp.req.limit = Missing
        /\ IndexFresh
        /\ \E i \in DOMAIN store : HasSubstring(store[i], TermOf(resp.req.q)))
    => resp.body.status = 200 /\ resp.body.total >= 1

\* C4: a listing or a search with an invalid page or limit, or a search
\* with a blank q, is answered 400 with an error message.
C4_InvalidIs400 ==
    (resp.op \in {"list", "search"}
        /\ (PagingInvalid(resp.req) \/ (resp.op = "search" /\ QBlank(resp.req.q))))
    => resp.body.status = 400 /\ resp.body.error # <<>>

\* C5: a generate call with an invalid count is answered 400 with an error
\* message and commits no row.
C5_InvalidCountIs400 ==
    (resp.op = "generate" /\ CountInvalid(resp.req.count))
    => resp.body.status = 400 /\ resp.body.error # <<>> /\ ~resp.writes

\* C6: every item a search returns is a row of the store that contains the
\* term, letter case aside, in one of its text columns.
C6_ItemsContainTerm ==
    (resp.op = "search" /\ resp.body.status = 200)
    => \A i \in DOMAIN resp.body.items :
        /\ resp.body.items[i].id \in DOMAIN store
        /\ store[resp.body.items[i].id] = resp.body.items[i]
        /\ HasSubstring(resp.body.items[i], TermOf(resp.req.q))

\* C7: for a valid page and limit, a page that starts at or after the end of
\* the result set is answered 200 with no items and the size of the result
\* set as total; the last page that has items holds the rows that remain.
C7_BeyondLastPageIsEmpty ==
    (resp.op \in {"list", "search"} /\ ~PagingInvalid(resp.req)
        /\ (resp.op = "search" => ~QBlank(resp.req.q)))
    => LET rs == ResultSet(resp.op, resp.req)
           page == PageNo(resp.req)
           limit == LimitNo(resp.req)
       IN  /\ (page.huge \/ (page.n - 1) * limit >= Len(rs))
                => /\ resp.body.status = 200
                   /\ resp.body.items = <<>>
                   /\ resp.body.total = Len(rs)
           /\ (~page.huge /\ (page.n - 1) * limit < Len(rs) /\ Len(rs) <= page.n * limit)
                => /\ resp.body.status = 200
                   /\ resp.body.items = SubSeq(rs, (page.n - 1) * limit + 1, Len(rs))
                   /\ resp.body.total = Len(rs)

\* C8: a generate call that committed its rows is answered 200 even when the
\* rebuild fails, and then leaves the index marked unavailable: an index
\* that is still consulted was rebuilt from the store.
C8_RebuildFailureDegrades ==
    (resp.op = "generate" /\ resp.writes)
    => resp.body.status = 200 /\ IndexFresh

\* C9: the store changes only by one call's whole batch becoming visible at
\* its commit, a failed call leaves it as it was, and every listing reports
\* the committed rows: no reader sees part of a batch.
C9_BatchAllOrNothing ==
    [][/\ \/ store' = store
          \/ \E c \in Clients :
                /\ pc[c] = "commit" /\ pc'[c] = "refresh"
                /\ products[c] # <<>>
                /\ Len(store') = Len(store) + Len(products[c])
                /\ SubSeq(store', 1, Len(store)) = store
                /\ \A i \in DOMAIN products[c] :
                    /\ store'[Len(store) + i].sku = products[c][i].sku
                    /\ store'[Len(store) + i].name = products[c][i].name
       /\ (resp'.op = "generate" /\ ~resp'.writes) => store' = store
       /\ (resp'.op = "list" /\ resp'.body.status = 200)
            => /\ resp'.body.total = Len(store')
               /\ \A i \in DOMAIN resp'.body.items :
                    resp'.body.items[i] = store'[resp'.body.items[i].id]
      ]_vars

\* a listing answered while another call's batch of two is inserted and not
\* yet committed, after an earlier batch was committed
C9_Witness ==
    /\ resp.op = "list" /\ resp.body.status = 200
    /\ resp.body.total = 1
    /\ \E c \in Clients : pc[c] = "commit" /\ Len(products[c]) = 2

\* C10: when no generate call stands between its commit and the end of its
\* refresh and the index is READY, the index holds exactly one entry per
\* stored row.
C10_ReadyIndexMatchesStore ==
    (HAS_FTS /\ \A c \in Clients : pc[c] # "refresh")
    => /\ {e.rowid : e \in fts} = StoreIds
       /\ Cardinality(fts) = Len(store)

====
